---------------------------- MODULE Spec2Model ----------------------------
(***************************************************************************)
(* A model of the STOR Go client (package stor): client options and their  *)
(* validation, NewClient, the request executor (createReq / doReq), the    *)
(* error mapper (mapErrorResponse) and the operation wrappers built on     *)
(* them, including the streaming ReadObject path.                          *)
(*                                                                         *)
(* An operation is one action: it builds its request descriptor R, hands   *)
(* it to doReq (or createReq + httpClient.Do for ReadObject), and turns    *)
(* the response into a result or an error.  The server and the network    *)
(* are the environment: each action draws what the transport does (fail,   *)
(* or answer with a status, headers and a body) from a small set.          *)
(*                                                                         *)
(* Not modelled: the context argument (always non-nil), nested / list      *)
(* fields and time parsing of decoded result bodies, URL escaping of       *)
(* query values (all values used need none).                               *)
(***************************************************************************)
EXTENDS Integers, Sequences, FiniteSets, TLC

VARIABLES
    opt,          \* the *ClientOptions under construction
    clients,      \* the *Client values NewClient has returned, in order
    httpTimeout,  \* http.Client handle -> its Timeout field (seconds, 0 = none)
    call,         \* the most recent call, what it sent and what it returned
    probe         \* a pure function applied on its own: argument and result

vars == <<opt, clients, httpTimeout, call, probe>>

---------------------------------------------------------------------------
(* Bounds of the model *)

MaxBodyLen == 2      \* bytes of a non-JSON response body
MaxFields == 2       \* members of a JSON object body given to the mapper
MaxChunk == 2        \* bytes asked for by one Read of a stream
MaxClients == 2      \* clients constructed in one run

(* Program constants *)

DefaultMaxKeys == 1000
DefaultTimeout == 30

---------------------------------------------------------------------------
(* Errors.  kind "nil" is Go's nil error; "domain" are the package's       *)
(* sentinel errors; "generic" is fmt.Errorf("<msg>: %v", status); "build", *)
(* "transport" and "read" are the errors of http.NewRequestWithContext,    *)
(* http.Client.Do and io.ReadAll; "decode" is json.Unmarshal's.            *)

Err(kind, msg, status) == [kind |-> kind, msg |-> msg, status |-> status]

NilErr == Err("nil", "", 0)

ErrArchiveNotFound == Err("domain", "archive not found", 0)

ErrBucketNotEmpty == Err("domain", "bucket not empty", 0)

ErrInvalidCredentials == Err("domain", "invalid credentials", 0)

ErrObjectNotFound == Err("domain", "object not found", 0)

ErrNoSuchBucket == Err("domain", "no such bucket", 0)

Errorf(msg, status) == Err("generic", msg, status)

---------------------------------------------------------------------------
(* Response bodies.  A body is a byte string; the model keeps its JSON     *)
(* reading beside it:                                                      *)
(*   kind "raw"    bytes that are not JSON (none at all: the empty body)   *)
(*   kind "null" / "array" / "scalar"   JSON that is not an object         *)
(*   kind "object" a JSON object, its members in order (keys may repeat)   *)
(* A member's value is a JSON string, number or null.                      *)

JStr(s) == [t |-> "string", s |-> s]

JNum(s) == [t |-> "number", s |-> s]

JNull == [t |-> "null", s |-> "null"]

Member(k, v) == [key |-> k, val |-> v]

RawBody(bytes) == [kind |-> "raw", fields |-> <<>>, bytes |-> bytes]

JsonBody(kind) == [kind |-> kind, fields |-> <<>>, bytes |-> <<>>]

ObjectBody(fields) == [kind |-> "object", fields |-> fields, bytes |-> <<>>]

EmptyBody == RawBody(<<>>)

(* The bytes of a body, as the stream of a response delivers them. *)
Bytes(body) ==
    CASE body.kind = "raw" -> body.bytes
      [] body.kind = "null" -> <<"null">>
      [] body.kind = "array" -> <<"[", "]">>
      [] body.kind = "scalar" -> <<"1">>
      [] OTHER -> <<"{">>
                  \o [i \in 1..Len(body.fields) |->
                        body.fields[i].key \o ":" \o body.fields[i].val.s]
                  \o <<"}">>

(* encoding/json matches an object key to a struct field by its json name, *)
(* ignoring case.                                                          *)
Fold(k) ==
    CASE k = "CODE" -> "code"
      [] k = "Code" -> "code"
      [] k = "Message" -> "message"
      [] OTHER -> k

(* json.Unmarshal(body, &v) for a struct v whose fields have the json      *)
(* names strKeys (Go strings) and numKeys (Go integers), all zero before.  *)
(* Empty or malformed input is a syntax error; an array or a scalar cannot *)
(* go into a struct; null leaves v as it is.  In an object, members are    *)
(* taken in order, a later one overwriting an earlier one; null leaves the *)
(* field alone; a value of the wrong JSON type is skipped and makes the    *)
(* call return an UnmarshalTypeError after the rest has been decoded.      *)
RECURSIVE DecodeMembers(_, _, _, _)
DecodeMembers(fields, strKeys, numKeys, acc) ==
    IF fields = <<>> THEN acc
    ELSE LET f == Head(fields)
             k == Fold(f.key)
             known == k \in (strKeys \cup numKeys)
             want == IF k \in strKeys THEN "string" ELSE "number"
             next ==
                 IF ~known \/ f.val.t = "null" THEN acc
                 ELSE IF f.val.t = want
                      THEN [acc EXCEPT !.val = [@ EXCEPT ![k] = f.val.s]]
                      ELSE [acc EXCEPT !.err = TRUE]
         IN  DecodeMembers(Tail(fields), strKeys, numKeys, next)

Zero(strKeys, numKeys) ==
    [k \in (strKeys \cup numKeys) |-> IF k \in strKeys THEN "" ELSE "0"]

Unmarshal(body, strKeys, numKeys) ==
    LET zero == [err |-> FALSE, val |-> Zero(strKeys, numKeys)] IN
    CASE body.kind = "raw" -> [zero EXCEPT !.err = TRUE]
      [] body.kind \in {"array", "scalar"} -> [zero EXCEPT !.err = TRUE]
      [] body.kind = "null" -> zero
      [] OTHER -> DecodeMembers(body.fields, strKeys, numKeys, zero)

---------------------------------------------------------------------------
(* The error mapper *)

MapResult(err, ok) == [err |-> err, ok |-> ok]


(* mapErrorResponse with the decoder's error left unread. *)
mapErrorResponse_ErrUnread(body) ==
    LET er == Unmarshal(body, {"code", "message"}, {}) IN
    CASE er.val["code"] = "InvalidCredentials" -> MapResult(ErrInvalidCredentials, TRUE)
      [] er.val["code"] = "NoSuchArchive" -> MapResult(ErrArchiveNotFound, TRUE)
      [] er.val["code"] = "NoSuchBucket" -> MapResult(ErrNoSuchBucket, TRUE)
      [] er.val["code"] = "BucketNotEmpty" -> MapResult(ErrBucketNotEmpty, TRUE)
      [] OTHER -> MapResult(NilErr, FALSE)

mapErrorResponse(body) ==
    LET er == Unmarshal(body, {"code", "message"}, {}) IN
    IF er.err THEN MapResult(NilErr, FALSE)
    ELSE CASE er.val["code"] = "InvalidCredentials" -> MapResult(ErrInvalidCredentials, TRUE)
           [] er.val["code"] = "NoSuchArchive" -> MapResult(ErrArchiveNotFound, TRUE)
           [] er.val["code"] = "NoSuchBucket" -> MapResult(ErrNoSuchBucket, TRUE)
           [] er.val["code"] = "BucketNotEmpty" -> MapResult(ErrBucketNotEmpty, TRUE)
           [] OTHER -> MapResult(NilErr, FALSE)

---------------------------------------------------------------------------
(* Client options (ClientOptions and its setters) *)

NilPtr == <<>>

Ptr(v) == <<v>>

HostRequired == Err("validation", "a host is required", 0)

ApiKeyRequired == Err("validation", "an API key is required", 0)

(* NewClientOptions: only the transport handle is set, to the process-wide *)
(* http.DefaultClient.                                                     *)
NewOptions ==
    [Host |-> "", ApiKey |-> "", HTTPCLient |-> "DefaultClient",
     Timeout |-> NilPtr, err |-> NilErr]

validate(o) ==
    IF o.Host = "" THEN HostRequired
    ELSE IF o.ApiKey = "" THEN ApiKeyRequired
    ELSE NilErr


(* Validate with nothing stored: the options are validated on every call. *)
ValidateOptions_NoCache(o) ==
    LET e == validate(o) IN [opt |-> [o EXCEPT !.err = e], ret |-> e]

(* Validate: a stored error is returned as it is; otherwise the options    *)
(* are validated and the outcome, nil included, is stored and returned.    *)
ValidateOptions(o) ==
    IF o.err # NilErr THEN [opt |-> o, ret |-> o.err]
    ELSE LET e == validate(o) IN [opt |-> [o EXCEPT !.err = e], ret |-> e]

(* NewClient(opts...): the client copies host and key; the transport       *)
(* handle is the options' handle itself, whose Timeout field is written.   *)
ClientOf(o) ==
    [host |-> o.Host, auth |-> "Bearer " \o o.ApiKey, httpClient |-> o.HTTPCLient]

TimeoutOf(o) ==
    IF o.Timeout # NilPtr THEN o.Timeout[1] ELSE DefaultTimeout

---------------------------------------------------------------------------
(* net/url and net/http values *)

HeaderNames == {"Authorization", "Content-Type", "Content-Length", "If-None-Match"}

NoHeader == [k \in HeaderNames |-> <<>>]

HeaderAdd(h, k, v) == [h EXCEPT ![k] = Append(@, v)]

HeaderSet(h, k, v) == [h EXCEPT ![k] = <<v>>]

HeaderGet(h, k) == IF h[k] = <<>> THEN "" ELSE h[k][1]

(* The query keys of the package, in the order url.Values.Encode sorts them. *)
KeyOrder ==
    <<"archive-id", "archives", "delete", "delimiter", "max-buckets", "max-keys",
      "nonces", "part-number", "prefix", "start-after", "ttl", "type",
      "upload-id", "uploads">>

QueryKeys == {KeyOrder[i] : i \in 1..Len(KeyOrder)}

NoQuery == [k \in QueryKeys |-> <<>>]

QuerySet(q, k, v) == [q EXCEPT ![k] = <<v>>]

QueryAdd(q, k, v) == [q EXCEPT ![k] = Append(@, v)]

QueryLen(q) == Cardinality({k \in QueryKeys : q[k] # <<>>})

RECURSIVE EncodeFrom(_, _, _)
EncodeFrom(q, i, acc) ==
    IF i > Len(KeyOrder) THEN acc
    ELSE LET k == KeyOrder[i]
             RECURSIVE Pairs(_, _)
             Pairs(vs, a) ==
                 IF vs = <<>> THEN a
                 ELSE Pairs(Tail(vs),
                            (IF a = "" THEN "" ELSE a \o "&") \o k \o "=" \o Head(vs))
         IN  EncodeFrom(q, i + 1, Pairs(q[k], acc))

(* url.Values.Encode: "k=v" pairs joined by "&", sorted by key. *)
Encode(q) == EncodeFrom(q, 1, "")

Digit(d) ==
    CASE d = 0 -> "0" [] d = 1 -> "1" [] d = 2 -> "2" [] d = 3 -> "3"
      [] d = 4 -> "4" [] d = 5 -> "5" [] d = 6 -> "6" [] d = 7 -> "7"
      [] d = 8 -> "8" [] OTHER -> "9"

(* strconv.Itoa *)
RECURSIVE Itoa(_)
Itoa(n) ==
    IF n < 0 THEN "-" \o Itoa(0 - n)
    ELSE IF n < 10 THEN Digit(n)
    ELSE Itoa(n \div 10) \o Digit(n % 10)

(* The request descriptor R; a nil io.Reader is NilPtr. *)
R0 ==
    [method |-> "", path |-> "", query |-> NoQuery, contentType |-> "",
     contentLength |-> 0, body |-> NilPtr, header |-> NoHeader]

NoRequest == [method |-> "", url |-> "", header |-> NoHeader, body |-> NilPtr]

(* url.Parse, as http.NewRequestWithContext calls it, on the hosts of the  *)
(* model: a URL that starts with a colon has no protocol scheme to parse.  *)
ParseFails(host) == host = ":bad"

(* http.Client.Do refuses a URL without a scheme before anything is sent. *)
NoScheme(host) == host = ""

objectPath(bucketName, key) == bucketName \o "/" \o key


(* createReq with the descriptor's header set, when it has entries, taking *)
(* the place of the request's headers.                                     *)
createReq_HeaderReplaces(c, r) ==
    LET method == IF r.method = "" THEN "GET" ELSE r.method
        u0 == c.host \o "/" \o r.path
        u == IF QueryLen(r.query) > 0 THEN u0 \o "?" \o Encode(r.query) ELSE u0
        h1 == HeaderAdd(NoHeader, "Authorization", c.auth)
        h2 == IF r.contentType # "" THEN HeaderAdd(h1, "Content-Type", r.contentType) ELSE h1
        h3 == IF r.contentLength # 0
              THEN HeaderAdd(h2, "Content-Length", Itoa(r.contentLength)) ELSE h2
        h4 == IF r.header # NoHeader THEN r.header ELSE h3
    IN  IF ParseFails(c.host)
        THEN [err |-> Err("build", "missing protocol scheme", 0), req |-> NoRequest]
        ELSE [err |-> NilErr,
              req |-> [method |-> method, url |-> u, header |-> h4, body |-> r.body]]

createReq(c, r) ==
    LET method == IF r.method = "" THEN "GET" ELSE r.method
        u0 == c.host \o "/" \o r.path
        u == IF QueryLen(r.query) > 0 THEN u0 \o "?" \o Encode(r.query) ELSE u0
        h1 == HeaderAdd(NoHeader, "Authorization", c.auth)
        h2 == IF r.contentType # "" THEN HeaderAdd(h1, "Content-Type", r.contentType) ELSE h1
        h3 == IF r.contentLength # 0
              THEN HeaderAdd(h2, "Content-Length", Itoa(r.contentLength)) ELSE h2
        h4 == [k \in HeaderNames |-> h3[k] \o r.header[k]]
    IN  IF ParseFails(c.host)
        THEN [err |-> Err("build", "missing protocol scheme", 0), req |-> NoRequest]
        ELSE [err |-> NilErr,
              req |-> [method |-> method, url |-> u, header |-> h4, body |-> r.body]]

---------------------------------------------------------------------------
(* The transport.  env is what the network and the server do with one      *)
(* request: fail |-> "do" the round trip fails (connection, timeout),      *)
(* "read" the body cannot be read to its end, "none" the response arrives. *)

ResHeaderNames == {"Content-Type", "ETag"}

NoResponse ==
    [StatusCode |-> 0, header |-> [k \in ResHeaderNames |-> ""],
     ContentLength |-> 0, body |-> EmptyBody]

ResponseOf(env) ==
    [StatusCode |-> env.status,
     header |-> [k \in ResHeaderNames |->
                    IF k = "Content-Type" THEN env.contentType ELSE env.etag],
     ContentLength |-> Len(Bytes(env.body)),
     body |-> env.body]

(* http.Client.Do: calls counts the round trips asked of the transport,    *)
(* wire says whether the request left for the network.                     *)
Do(c, req, env) ==
    IF NoScheme(c.host)
    THEN [err |-> Err("transport", "unsupported protocol scheme", 0),
          res |-> NoResponse, wire |-> FALSE]
    ELSE IF env.fail = "do"
    THEN [err |-> Err("transport", "round trip failed", 0),
          res |-> NoResponse, wire |-> TRUE]
    ELSE [err |-> NilErr, res |-> ResponseOf(env), wire |-> TRUE]

(* What one executor run leaves behind: the request built, the round trips *)
(* made, the response received, whether its body is still open, the error  *)
(* that building, sending or reading raised (raised), and what is handed   *)
(* to the wrapper (err, and body: the bytes read).                         *)
Outcome(err, raised, req, calls, wire, responded, res, body, bodyOpen) ==
    [err |-> err, raised |-> raised, req |-> req, calls |-> calls, wire |-> wire,
     responded |-> responded, res |-> res, body |-> body, bodyOpen |-> bodyOpen]

ReadFailed == Err("read", "unexpected EOF", 0)


(* doReq handing on what was read when reading the body fails. *)
doReq_ReadErrorDropped(c, r, env) ==
    LET cr == createReq(c, r)
        d == Do(c, cr.req, env)
    IN  IF cr.err # NilErr
        THEN Outcome(cr.err, cr.err, NoRequest, 0, FALSE, FALSE, NoResponse,
                     EmptyBody, FALSE)
        ELSE IF d.err # NilErr
        THEN Outcome(d.err, d.err, cr.req, 1, d.wire, FALSE, NoResponse,
                     EmptyBody, FALSE)
        ELSE IF env.fail = "read"
        THEN Outcome(NilErr, ReadFailed, cr.req, 1, TRUE, TRUE,
                     d.res, EmptyBody, TRUE)
        ELSE Outcome(NilErr, NilErr, cr.req, 1, TRUE, TRUE, d.res, d.res.body, TRUE)

doReq(c, r, env) ==
    LET cr == createReq(c, r)
        d == Do(c, cr.req, env)
    IN  IF cr.err # NilErr
        THEN Outcome(cr.err, cr.err, NoRequest, 0, FALSE, FALSE, NoResponse,
                     EmptyBody, FALSE)
        ELSE IF d.err # NilErr
        THEN Outcome(d.err, d.err, cr.req, 1, d.wire, FALSE, NoResponse,
                     EmptyBody, FALSE)
        ELSE IF env.fail = "read"
        THEN Outcome(ReadFailed, ReadFailed, cr.req, 1, TRUE, TRUE,
                     d.res, EmptyBody, TRUE)
        ELSE Outcome(NilErr, NilErr, cr.req, 1, TRUE, TRUE, d.res, d.res.body, TRUE)

---------------------------------------------------------------------------
(* What a wrapper returns, beside the executor's trace. *)

NoResult == [some |-> FALSE, val |-> <<>>]

Result(val) == [some |-> TRUE, val |-> val]

NoStream == [data |-> <<>>, pos |-> 0, closed |-> FALSE]

Ret(d, err, result, mapperCalls) ==
    [req |-> d.req, calls |-> d.calls, wire |-> d.wire, responded |-> d.responded,
     res |-> d.res, bodyOpen |-> d.bodyOpen, raised |-> d.raised,
     err |-> err, result |-> result,
     mapperCalls |-> mapperCalls, stream |-> NoStream]

(* A wrapper that hands the executor's error on. *)
Fail(d) == Ret(d, d.err, NoResult, 0)

(* The decoded success body, or json.Unmarshal's error. *)
Decoded(d, strKeys, numKeys, wrap) ==
    LET u == Unmarshal(d.body, strKeys, numKeys) IN
    IF u.err
    THEN Ret(d, Err("decode", IF wrap = "" THEN "json" ELSE wrap, 0), NoResult, 0)
    ELSE Ret(d, NilErr, Result(u.val), 0)

(* The commands' fields; a wrapper reads those of its own command type. *)
Cmd0 ==
    [Name |-> "b1", Bucket |-> "b1", Key |-> "k1", ContentType |-> "text/plain",
     Data |-> "data1", IfNoneMatch |-> FALSE, UploadId |-> "u1", PartNumber |-> 1,
     ContentLength |-> 5, Parts |-> "e1:1", Objects |-> "k1,k2",
     StartAfter |-> "", MaxKeys |-> 0, MaxBuckets |-> 0, Delimiter |-> "",
     Prefix |-> "", ArchiveId |-> "a1", Type |-> "zip", Entries |-> "k1:n1",
     TTL |-> 60]

---------------------------------------------------------------------------
(* Bucket operations *)

ListBucketsCall(c, cmd, env) ==
    LET q1 == IF cmd.StartAfter # ""
              THEN QuerySet(NoQuery, "start-after", cmd.StartAfter) ELSE NoQuery
        query == IF cmd.MaxBuckets # 0
                 THEN QuerySet(q1, "max-buckets", Itoa(cmd.MaxBuckets)) ELSE q1
        d == doReq(c, R0, env)       \* R{}: query is built and left behind
    IN  IF d.err # NilErr THEN Fail(d)
        ELSE IF d.res.StatusCode # 200
        THEN LET m == mapErrorResponse(d.body) IN
             IF m.ok THEN Ret(d, m.err, NoResult, 1)
             ELSE Ret(d, Errorf("unable to list buckets", d.res.StatusCode), NoResult, 1)
        ELSE Decoded(d, {}, {}, "unable to unmarshal response")


(* CreateBucket taking 200 for its success status. *)
CreateBucketCall_Accepts200(c, cmd, env) ==
    LET d == doReq(c, [R0 EXCEPT !.method = "PUT", !.path = cmd.Name], env)
    IN  IF d.err # NilErr THEN Fail(d)
        ELSE IF d.res.StatusCode # 200
        THEN LET m == mapErrorResponse(d.body) IN
             IF m.ok THEN Ret(d, m.err, NoResult, 1)
             ELSE Ret(d, Errorf("unable to create bucket", d.res.StatusCode), NoResult, 1)
        ELSE Decoded(d, {"name", "createdAt"}, {"objects", "size"},
                     "unable to unmarshal response")

CreateBucketCall(c, cmd, env) ==
    LET d == doReq(c, [R0 EXCEPT !.method = "PUT", !.path = cmd.Name], env)
    IN  IF d.err # NilErr THEN Fail(d)
        ELSE IF d.res.StatusCode # 201
        THEN LET m == mapErrorResponse(d.body) IN
             IF m.ok THEN Ret(d, m.err, NoResult, 1)
             ELSE Ret(d, Errorf("unable to create bucket", d.res.StatusCode), NoResult, 1)
        ELSE Decoded(d, {"name", "createdAt"}, {"objects", "size"},
                     "unable to unmarshal response")

DeleteBucketCall(c, cmd, env) ==
    LET d == doReq(c, [R0 EXCEPT !.method = "DELETE", !.path = cmd.Name], env)
    IN  IF d.err # NilErr THEN Fail(d)
        ELSE IF d.res.StatusCode # 204
        THEN LET m == mapErrorResponse(d.body) IN
             IF m.ok THEN Ret(d, m.err, NoResult, 1)
             ELSE Ret(d, Errorf("unable to delete bucket", d.res.StatusCode), NoResult, 1)
        ELSE Ret(d, NilErr, NoResult, 0)

---------------------------------------------------------------------------
(* Object and multipart-upload operations *)

CreateObjectCall(c, cmd, env) ==
    LET header == IF cmd.IfNoneMatch
                  THEN HeaderSet(NoHeader, "If-None-Match", "*") ELSE NoHeader
        d == doReq(c, [R0 EXCEPT !.method = "PUT",
                                 !.path = objectPath(cmd.Bucket, cmd.Key),
                                 !.header = header,
                                 !.contentType = cmd.ContentType,
                                 !.body = Ptr(cmd.Data)], env)
    IN  IF d.err # NilErr THEN Fail(d)
        ELSE IF d.res.StatusCode # 204
        THEN Ret(d, Errorf("unable to create object", d.res.StatusCode), NoResult, 0)
        ELSE Ret(d, NilErr, Result([ETag |-> d.res.header["ETag"]]), 0)

CreateMultipartUploadCall(c, cmd, env) ==
    LET query == QuerySet(NoQuery, "uploads", "")
        d == doReq(c, [R0 EXCEPT !.method = "POST",
                                 !.path = objectPath(cmd.Bucket, cmd.Key),
                                 !.query = query,
                                 !.contentType = cmd.ContentType], env)
    IN  IF d.err # NilErr THEN Fail(d)
        ELSE IF d.res.StatusCode # 200
        THEN Ret(d, Errorf("unable to create multipart upload", d.res.StatusCode),
                 NoResult, 0)
        ELSE Decoded(d, {"bucket", "key", "uploadid"}, {}, "")

UploadPartCall(c, cmd, env) ==
    LET query == QuerySet(QuerySet(NoQuery, "upload-id", cmd.UploadId),
                          "part-number", Itoa(cmd.PartNumber))
        d == doReq(c, [R0 EXCEPT !.method = "PUT",
                                 !.path = objectPath(cmd.Bucket, cmd.Key),
                                 !.query = query,
                                 !.contentLength = cmd.ContentLength], env)
    IN  IF d.err # NilErr THEN Fail(d)
        ELSE IF d.res.StatusCode # 200
        THEN Ret(d, Errorf("unable to upload part", d.res.StatusCode), NoResult, 0)
        ELSE Ret(d, NilErr, Result([ETag |-> d.res.header["ETag"]]), 0)

CompleteMultipartUploadCall(c, cmd, env) ==
    LET query == QuerySet(NoQuery, "upload-id", cmd.UploadId)
        header == IF cmd.IfNoneMatch
                  THEN HeaderSet(NoHeader, "If-None-Match", "*") ELSE NoHeader
        body == "{parts:[" \o cmd.Parts \o "]}"
        d == doReq(c, [R0 EXCEPT !.method = "POST",
                                 !.path = objectPath(cmd.Bucket, cmd.Key),
                                 !.query = query,
                                 !.header = header,
                                 !.body = Ptr(body)], env)
    IN  IF d.err # NilErr THEN Fail(d)
        ELSE IF d.res.StatusCode # 200
        THEN Ret(d, Errorf("unable to complete upload", d.res.StatusCode), NoResult, 0)
        ELSE Decoded(d, {"bucket", "key", "etag"}, {}, "")

AbortMultipartUploadCall(c, cmd, env) ==
    LET query == QuerySet(NoQuery, "upload-id", cmd.UploadId)
        d == doReq(c, [R0 EXCEPT !.method = "DELETE",
                                 !.path = objectPath(cmd.Bucket, cmd.Key),
                                 !.query = query], env)
    IN  IF d.err # NilErr THEN Fail(d)
        ELSE IF d.res.StatusCode # 204
        THEN Ret(d, Errorf("unable to abort multipart upload", d.res.StatusCode),
                 NoResult, 0)
        ELSE Ret(d, NilErr, NoResult, 0)

ListObjectsCall(c, r, env) ==
    LET maxKeys == IF r.MaxKeys < 1 THEN DefaultMaxKeys ELSE r.MaxKeys
        q == QueryAdd(QueryAdd(QueryAdd(QueryAdd(NoQuery,
                 "start-after", r.StartAfter),
                 "max-keys", Itoa(maxKeys)),
                 "delimiter", r.Delimiter),
                 "prefix", r.Prefix)
        d == doReq(c, [R0 EXCEPT !.path = r.Bucket, !.query = q], env)
    IN  IF d.err # NilErr THEN Fail(d)
        ELSE IF d.res.StatusCode # 200
        THEN Ret(d, Errorf("unable to list objects", d.res.StatusCode), NoResult, 0)
        ELSE Decoded(d, {"name"}, {"maxKeys", "keyCount"},
                     "unable to unmarshal server response")


(* ReadObject without its 404 case. *)
ReadObjectCall_No404(c, cmd, env) ==
    LET cr == createReq(c, [R0 EXCEPT !.path = cmd.Bucket \o "/" \o cmd.Key])
        t == Do(c, cr.req, env)
        d == IF cr.err # NilErr
             THEN Outcome(cr.err, cr.err, NoRequest, 0, FALSE, FALSE, NoResponse,
                          EmptyBody, FALSE)
             ELSE IF t.err # NilErr
             THEN Outcome(t.err, t.err, cr.req, 1, t.wire, FALSE, NoResponse,
                          EmptyBody, FALSE)
             ELSE Outcome(NilErr, NilErr, cr.req, 1, TRUE, TRUE, t.res, EmptyBody, TRUE)
    IN  IF d.err # NilErr THEN Fail(d)
        ELSE IF d.res.StatusCode # 200
        THEN Ret(d, Errorf("unexpected status code", d.res.StatusCode), NoResult, 0)
        ELSE [Ret(d, NilErr,
                  Result([ContentType |-> d.res.header["Content-Type"],
                          ContentLength |-> d.res.ContentLength]), 0)
                EXCEPT !.stream = [data |-> Bytes(d.res.body), pos |-> 0,
                                   closed |-> FALSE]]

(* ReadObject goes past doReq: the body is not read, it is handed out as   *)
(* the result's stream.                                                    *)
ReadObjectCall(c, cmd, env) ==
    LET cr == createReq(c, [R0 EXCEPT !.path = cmd.Bucket \o "/" \o cmd.Key])
        t == Do(c, cr.req, env)
        d == IF cr.err # NilErr
             THEN Outcome(cr.err, cr.err, NoRequest, 0, FALSE, FALSE, NoResponse,
                          EmptyBody, FALSE)
             ELSE IF t.err # NilErr
             THEN Outcome(t.err, t.err, cr.req, 1, t.wire, FALSE, NoResponse,
                          EmptyBody, FALSE)
             ELSE Outcome(NilErr, NilErr, cr.req, 1, TRUE, TRUE, t.res, EmptyBody, TRUE)
    IN  IF d.err # NilErr THEN Fail(d)
        ELSE IF d.res.StatusCode = 404 THEN Ret(d, ErrObjectNotFound, NoResult, 0)
        ELSE IF d.res.StatusCode # 200
        THEN Ret(d, Errorf("unexpected status code", d.res.StatusCode), NoResult, 0)
        ELSE [Ret(d, NilErr,
                  Result([ContentType |-> d.res.header["Content-Type"],
                          ContentLength |-> d.res.ContentLength]), 0)
                EXCEPT !.stream = [data |-> Bytes(d.res.body), pos |-> 0,
                                   closed |-> FALSE]]

DeleteObjectsCall(c, cmd, env) ==
    LET data == "{objects:[" \o cmd.Objects \o "]}"
        query == QuerySet(NoQuery, "delete", "")
        d == doReq(c, [R0 EXCEPT !.method = "POST",
                                 !.path = cmd.Bucket,
                                 !.query = query,
                                 !.contentType = "application/json",
                                 !.body = Ptr(data)], env)
    IN  IF d.err # NilErr THEN Fail(d)
        ELSE IF d.res.StatusCode # 200
        THEN Ret(d, Errorf("unable to delete objects", d.res.StatusCode), NoResult, 0)
        ELSE Decoded(d, {}, {}, "")

---------------------------------------------------------------------------
(* Archive and nonce operations *)

CreateArchiveCall(c, cmd, env) ==
    LET query == QuerySet(QuerySet(NoQuery, "archives", ""), "type", cmd.Type)
        d == doReq(c, [R0 EXCEPT !.method = "POST",
                                 !.path = objectPath(cmd.Bucket, cmd.Key),
                                 !.query = query], env)
    IN  IF d.err # NilErr THEN Fail(d)
        ELSE IF d.res.StatusCode # 200
        THEN Ret(d, Errorf("unable to create archive", d.res.StatusCode), NoResult, 0)
        ELSE Decoded(d, {"bucket", "key", "archiveid"}, {}, "")

AddArchiveEntriesCall(c, cmd, env) ==
    LET query == QuerySet(NoQuery, "archive-id", cmd.ArchiveId)
        body == "{Entries:[" \o cmd.Entries \o "]}"
        d == doReq(c, [R0 EXCEPT !.method = "PUT",
                                 !.path = objectPath(cmd.Bucket, cmd.Key),
                                 !.query = query,
                                 !.body = Ptr(body),
                                 !.contentType = "application/json"], env)
    IN  IF d.err # NilErr THEN Fail(d)
        ELSE IF d.res.StatusCode # 200
        THEN Ret(d, Errorf("unable to add archive entries", d.res.StatusCode),
                 NoResult, 0)
        ELSE Ret(d, NilErr, NoResult, 0)


(* CompleteArchive leaving its header set out of the descriptor. *)
CompleteArchiveCall_HeaderLeftOut(c, cmd, env) ==
    LET query == QuerySet(NoQuery, "archive-id", cmd.ArchiveId)
        header == IF cmd.IfNoneMatch
                  THEN HeaderSet(NoHeader, "If-None-Match", "*") ELSE NoHeader
        d == doReq(c, [R0 EXCEPT !.method = "POST",
                                 !.path = objectPath(cmd.Bucket, cmd.Key),
                                 !.query = query], env)
    IN  IF d.err # NilErr THEN Fail(d)
        ELSE IF d.res.StatusCode # 204
        THEN Ret(d, Errorf("unable to complete archive", d.res.StatusCode), NoResult, 0)
        ELSE Ret(d, NilErr, NoResult, 0)

CompleteArchiveCall(c, cmd, env) ==
    LET query == QuerySet(NoQuery, "archive-id", cmd.ArchiveId)
        header == IF cmd.IfNoneMatch
                  THEN HeaderSet(NoHeader, "If-None-Match", "*") ELSE NoHeader
        d == doReq(c, [R0 EXCEPT !.method = "POST",
                                 !.path = objectPath(cmd.Bucket, cmd.Key),
                                 !.query = query,
                                 !.header = header], env)
    IN  IF d.err # NilErr THEN Fail(d)
        ELSE IF d.res.StatusCode # 204
        THEN Ret(d, Errorf("unable to complete archive", d.res.StatusCode), NoResult, 0)
        ELSE Ret(d, NilErr, NoResult, 0)

AbortArchiveCall(c, cmd, env) ==
    LET query == QuerySet(NoQuery, "archive-id", cmd.ArchiveId)
        d == doReq(c, [R0 EXCEPT !.method = "DELETE",
                                 !.path = objectPath(cmd.Bucket, cmd.Key),
                                 !.query = query], env)
    IN  IF d.err # NilErr THEN Fail(d)
        ELSE IF d.res.StatusCode # 204
        THEN Ret(d, Errorf("unable to abort archive", d.res.StatusCode), NoResult, 0)
        ELSE Ret(d, NilErr, NoResult, 0)

GetArchiveCall(c, cmd, env) ==
    LET query == QuerySet(NoQuery, "archive-id", cmd.ArchiveId)
        d == doReq(c, [R0 EXCEPT !.method = "GET",
                                 !.path = objectPath(cmd.Bucket, cmd.Key),
                                 !.query = query], env)
    IN  IF d.err # NilErr THEN Fail(d)
        ELSE IF d.res.StatusCode = 404 THEN Ret(d, ErrArchiveNotFound, NoResult, 0)
        ELSE IF d.res.StatusCode # 200
        THEN Ret(d, Errorf("unable to get archive", d.res.StatusCode), NoResult, 0)
        ELSE Decoded(d, {"id", "state", "type"}, {},
                     "unable to unmarshal server response")

CreateNonceCall(c, cmd, env) ==
    LET query == QuerySet(QuerySet(NoQuery, "nonces", ""), "ttl", Itoa(cmd.TTL))
        d == doReq(c, [R0 EXCEPT !.method = "POST",
                                 !.path = objectPath(cmd.Bucket, cmd.Key),
                                 !.query = query], env)
    IN  IF d.err # NilErr THEN Fail(d)
        ELSE IF d.res.StatusCode # 201
        THEN Ret(d, Errorf("unable to create nonce", d.res.StatusCode), NoResult, 0)
        ELSE Decoded(d, {"nonce", "expiresAt"}, {}, "")

---------------------------------------------------------------------------
(* The stream of a ReadObjectResult: Read and Close go to the body of the  *)
(* response.  A Read of a buffer of n bytes takes between 1 and n of the   *)
(* bytes left; at the end it reports io.EOF; on a closed body it fails.    *)

ReadStream(st, n, k) ==
    IF st.closed THEN [stream |-> st, bytes |-> <<>>, err |-> "closed"]
    ELSE IF st.pos = Len(st.data) THEN [stream |-> st, bytes |-> <<>>, err |-> "EOF"]
    ELSE [stream |-> [st EXCEPT !.pos = @ + k],
          bytes |-> SubSeq(st.data, st.pos + 1, st.pos + k), err |-> "nil"]

CloseStream(st) == [st EXCEPT !.closed = TRUE]

Min(a, b) == IF a < b THEN a ELSE b

---------------------------------------------------------------------------
(* Inputs: the hosts and keys a client is built from, the commands given   *)
(* and what the transport answers.                                         *)

Hosts == {"", "http://h", ":bad"}

Keys == {"", "s3cr3t"}

TimeoutValues == {5}

BoundedSeq(S, n) == UNION {[1..k -> S] : k \in 0..n}

RawBodies == {RawBody(b) : b \in BoundedSeq({"a", "b"}, MaxBodyLen)}

ErrorBody(code) == ObjectBody(<<Member("code", JStr(code))>>)

BucketBody == ObjectBody(<<Member("name", JStr("b1")), Member("objects", JNum("0"))>>)

Statuses == {200, 201, 204, 401, 404}

Answer(status, body) ==
    [fail |-> "none", status |-> status, contentType |-> "application/json",
     etag |-> "e1", body |-> body]

Failure(fail) == [Answer(200, BucketBody) EXCEPT !.fail = fail]

OpBodies == {EmptyBody, ErrorBody("InvalidCredentials"), ErrorBody("Teapot"), BucketBody}

Envs ==
    {Answer(s, b) : s \in Statuses, b \in OpBodies}
    \cup {Failure("do"), Failure("read")}

ReadEnvs ==
    {Answer(s, b) : s \in Statuses, b \in RawBodies \cup {ErrorBody("InvalidCredentials")}}
    \cup {Failure("do")}

ConfigEnvs == {Answer(201, BucketBody), Answer(401, ErrorBody("InvalidCredentials"))}

MaxKeysInputs == {-1, 0, 1, 2, DefaultMaxKeys - 1, DefaultMaxKeys, DefaultMaxKeys + 1}

CodeStrings ==
    {"InvalidCredentials", "NoSuchArchive", "NoSuchBucket", "BucketNotEmpty",
     "NoSuchKey", "nosuchbucket", ""}

MapperMembers ==
    {Member(k, v) : k \in {"code", "CODE", "message", "other"},
                    v \in {JStr(s) : s \in CodeStrings} \cup {JNum("5"), JNull}}

MapperBodies ==
    RawBodies
    \cup {JsonBody("null"), JsonBody("array"), JsonBody("scalar")}
    \cup {ObjectBody(f) : f \in BoundedSeq(MapperMembers, MaxFields)}

---------------------------------------------------------------------------
(* The record of a call *)

Idle ==
    Ret(Outcome(NilErr, NilErr, NoRequest, 0, FALSE, FALSE, NoResponse, EmptyBody, FALSE),
        NilErr, NoResult, 0)

CallOf(name, i, cmd, ret) ==
    [op |-> name, client |-> i, cmd |-> cmd,
     req |-> ret.req, calls |-> ret.calls, wire |-> ret.wire,
     responded |-> ret.responded, res |-> ret.res, bodyOpen |-> ret.bodyOpen,
     raised |-> ret.raised,
     err |-> ret.err, result |-> ret.result, mapperCalls |-> ret.mapperCalls,
     stream |-> ret.stream, read |-> <<>>, readErr |-> "nil"]

NoProbe ==
    [fn |-> "", arg |-> EmptyBody, done |-> FALSE, out |-> MapResult(NilErr, FALSE)]

(* An operation through client i: nothing but the record of the call changes. *)
Invoke(name, i, cmd, ret) ==
    /\ call' = CallOf(name, i, cmd, ret)
    /\ UNCHANGED <<opt, clients, httpTimeout, probe>>

ClientIds == 1..Len(clients)

---------------------------------------------------------------------------
(* Actions: the options and NewClient *)

NewClientOptions ==
    /\ opt' = NewOptions
    /\ call' = CallOf("NewClientOptions", 0, Cmd0, Idle)
    /\ UNCHANGED <<clients, httpTimeout, probe>>

SetHost ==
    \E host \in Hosts :
        /\ opt' = [opt EXCEPT !.Host = host]
        /\ call' = CallOf("SetHost", 0, Cmd0, Idle)
        /\ UNCHANGED <<clients, httpTimeout, probe>>

SetApiKey ==
    \E apiKey \in Keys :
        /\ opt' = [opt EXCEPT !.ApiKey = apiKey]
        /\ call' = CallOf("SetApiKey", 0, Cmd0, Idle)
        /\ UNCHANGED <<clients, httpTimeout, probe>>

SetTimout ==
    \E timeout \in TimeoutValues :
        /\ opt' = [opt EXCEPT !.Timeout = Ptr(timeout)]
        /\ call' = CallOf("SetTimout", 0, Cmd0, Idle)
        /\ UNCHANGED <<clients, httpTimeout, probe>>

Validate ==
    LET v == ValidateOptions(opt) IN
    /\ opt' = v.opt
    /\ call' = CallOf("Validate", 0, Cmd0, [Idle EXCEPT !.err = v.ret])
    /\ UNCHANGED <<clients, httpTimeout, probe>>

(* NewClient(o): the new client, and the write to its handle's Timeout. *)
NewClientFrom(o) ==
    /\ Len(clients) < MaxClients
    /\ clients' = Append(clients, ClientOf(o))
    /\ httpTimeout' = [httpTimeout EXCEPT ![o.HTTPCLient] = TimeoutOf(o)]
    /\ call' = CallOf("NewClient", Len(clients) + 1, Cmd0, Idle)
    /\ UNCHANGED <<opt, probe>>

NewClient == NewClientFrom(opt)

(* NewClient(): no options given, NewClientOptions() is used. *)
NewClientNoOptions == NewClientFrom(NewOptions)

---------------------------------------------------------------------------
(* Actions: the operations.  E is the set of answers the transport may give. *)

ListBuckets(E) ==
    \E i \in ClientIds, env \in E, startAfter \in {"", "b0"}, maxBuckets \in {0, 10} :
        LET cmd == [Cmd0 EXCEPT !.StartAfter = startAfter, !.MaxBuckets = maxBuckets]
        IN  Invoke("ListBuckets", i, cmd, ListBucketsCall(clients[i], cmd, env))

CreateBucket(E) ==
    \E i \in ClientIds, env \in E :
        Invoke("CreateBucket", i, Cmd0, CreateBucketCall(clients[i], Cmd0, env))

DeleteBucket(E) ==
    \E i \in ClientIds, env \in E :
        Invoke("DeleteBucket", i, Cmd0, DeleteBucketCall(clients[i], Cmd0, env))

CreateMultipartUpload(E) ==
    \E i \in ClientIds, env \in E :
        Invoke("CreateMultipartUpload", i, Cmd0, CreateMultipartUploadCall(clients[i], Cmd0, env))

AbortMultipartUpload(E) ==
    \E i \in ClientIds, env \in E :
        Invoke("AbortMultipartUpload", i, Cmd0, AbortMultipartUploadCall(clients[i], Cmd0, env))

DeleteObjects(E) ==
    \E i \in ClientIds, env \in E :
        Invoke("DeleteObjects", i, Cmd0, DeleteObjectsCall(clients[i], Cmd0, env))

CreateArchive(E) ==
    \E i \in ClientIds, env \in E :
        Invoke("CreateArchive", i, Cmd0, CreateArchiveCall(clients[i], Cmd0, env))

AddArchiveEntries(E) ==
    \E i \in ClientIds, env \in E :
        Invoke("AddArchiveEntries", i, Cmd0, AddArchiveEntriesCall(clients[i], Cmd0, env))

AbortArchive(E) ==
    \E i \in ClientIds, env \in E :
        Invoke("AbortArchive", i, Cmd0, AbortArchiveCall(clients[i], Cmd0, env))

GetArchive(E) ==
    \E i \in ClientIds, env \in E :
        Invoke("GetArchive", i, Cmd0, GetArchiveCall(clients[i], Cmd0, env))

CreateNonce(E) ==
    \E i \in ClientIds, env \in E :
        Invoke("CreateNonce", i, Cmd0, CreateNonceCall(clients[i], Cmd0, env))

CreateObject(E) ==
    \E i \in ClientIds, env \in E, ifNoneMatch \in BOOLEAN :
        LET cmd == [Cmd0 EXCEPT !.IfNoneMatch = ifNoneMatch]
        IN  Invoke("CreateObject", i, cmd, CreateObjectCall(clients[i], cmd, env))

CompleteMultipartUpload(E) ==
    \E i \in ClientIds, env \in E, ifNoneMatch \in BOOLEAN :
        LET cmd == [Cmd0 EXCEPT !.IfNoneMatch = ifNoneMatch]
        IN  Invoke("CompleteMultipartUpload", i, cmd, CompleteMultipartUploadCall(clients[i], cmd, env))

CompleteArchive(E) ==
    \E i \in ClientIds, env \in E, ifNoneMatch \in BOOLEAN :
        LET cmd == [Cmd0 EXCEPT !.IfNoneMatch = ifNoneMatch]
        IN  Invoke("CompleteArchive", i, cmd, CompleteArchiveCall(clients[i], cmd, env))

UploadPart(E) ==
    \E i \in ClientIds, env \in E, contentLength \in {0, 5} :
        LET cmd == [Cmd0 EXCEPT !.ContentLength = contentLength]
        IN  Invoke("UploadPart", i, cmd, UploadPartCall(clients[i], cmd, env))

ListObjects(E) ==
    \E i \in ClientIds, env \in E, maxKeys \in MaxKeysInputs :
        LET cmd == [Cmd0 EXCEPT !.MaxKeys = maxKeys]
        IN  Invoke("ListObjects", i, cmd, ListObjectsCall(clients[i], cmd, env))

ReadObject(E) ==
    \E i \in ClientIds, env \in E :
        Invoke("ReadObject", i, Cmd0, ReadObjectCall(clients[i], Cmd0, env))

(* The caller reads from, and closes, the result ReadObject gave it. *)
HasStream == call.op = "ReadObject" /\ call.result.some

Read ==
    /\ HasStream
    /\ \E n \in 1..MaxChunk :
         \E k \in 1..Min(n, IF call.stream.pos < Len(call.stream.data)
                            THEN Len(call.stream.data) - call.stream.pos ELSE 1) :
            LET r == ReadStream(call.stream, n, k) IN
            call' = [call EXCEPT !.stream = r.stream, !.read = @ \o r.bytes,
                                 !.readErr = r.err]
    /\ UNCHANGED <<opt, clients, httpTimeout, probe>>

Close ==
    /\ HasStream
    /\ call' = [call EXCEPT !.stream = CloseStream(@)]
    /\ UNCHANGED <<opt, clients, httpTimeout, probe>>

ApplyMapErrorResponse ==
    /\ probe.fn = "mapErrorResponse"
    /\ ~probe.done
    /\ probe' = [probe EXCEPT !.out = mapErrorResponse(probe.arg), !.done = TRUE]
    /\ UNCHANGED <<opt, clients, httpTimeout, call>>

---------------------------------------------------------------------------
(* Spec: the operations issued through a client NewClient has returned. *)

Init ==
    \E host \in Hosts, apiKey \in Keys :
        /\ opt = [NewOptions EXCEPT !.Host = host, !.ApiKey = apiKey]
        /\ clients = <<ClientOf(opt)>>
        /\ httpTimeout = [h \in {"DefaultClient"} |-> TimeoutOf(opt)]
        /\ call = CallOf("NewClient", 1, Cmd0, Idle)
        /\ probe = NoProbe

Next ==
    \/ ListBuckets(Envs)
    \/ CreateBucket(Envs)
    \/ DeleteBucket(Envs)
    \/ CreateObject(Envs)
    \/ CreateMultipartUpload(Envs)
    \/ UploadPart(Envs)
    \/ CompleteMultipartUpload(Envs)
    \/ AbortMultipartUpload(Envs)
    \/ ListObjects(Envs)
    \/ ReadObject(ReadEnvs)
    \/ Read
    \/ Close
    \/ DeleteObjects(Envs)
    \/ CreateArchive(Envs)
    \/ AddArchiveEntries(Envs)
    \/ CompleteArchive(Envs)
    \/ AbortArchive(Envs)
    \/ GetArchive(Envs)
    \/ CreateNonce(Envs)

Spec == Init /\ [][Next]_vars

(* SpecConfig: options are built, validated and turned into clients, and   *)
(* requests go through the clients built so far.                           *)

InitConfig ==
    /\ opt = NewOptions
    /\ clients = <<>>
    /\ httpTimeout = [h \in {"DefaultClient"} |-> 0]
    /\ call = CallOf("NewClientOptions", 0, Cmd0, Idle)
    /\ probe = NoProbe

NextConfig ==
    \/ NewClientOptions
    \/ SetHost
    \/ SetApiKey
    \/ SetTimout
    \/ Validate
    \/ NewClient
    \/ NewClientNoOptions
    \/ CreateBucket(ConfigEnvs)

SpecConfig == InitConfig /\ [][NextConfig]_vars

(* SpecMapper: mapErrorResponse applied to one body. *)

InitMapper ==
    /\ opt = NewOptions
    /\ clients = <<>>
    /\ httpTimeout = [h \in {"DefaultClient"} |-> 0]
    /\ call = CallOf("NewClientOptions", 0, Cmd0, Idle)
    /\ \E body \in MapperBodies : probe = [NoProbe EXCEPT !.fn = "mapErrorResponse", !.arg = body]

NextMapper == ApplyMapErrorResponse

SpecMapper == InitMapper /\ [][NextMapper]_vars

---------------------------------------------------------------------------
(* Properties *)

(* The status a wrapper takes for success, as its code compares it. *)
AcceptedStatus(op) ==
    CASE op \in {"CreateBucket", "CreateNonce"} -> 201
      [] op \in {"CreateObject", "DeleteBucket", "AbortMultipartUpload",
                 "CompleteArchive", "AbortArchive"} -> 204
      [] OTHER -> 200

BufferedOps ==
    {"ListBuckets", "CreateBucket", "DeleteBucket", "CreateObject",
     "CreateMultipartUpload", "UploadPart", "CompleteMultipartUpload",
     "AbortMultipartUpload", "ListObjects", "DeleteObjects", "CreateArchive",
     "AddArchiveEntries", "CompleteArchive", "AbortArchive", "GetArchive",
     "CreateNonce"}

Operations == BufferedOps \cup {"ReadObject"}

(* The call is an operation that received a response and read it. *)
Answered == call.op \in Operations /\ call.responded /\ call.raised = NilErr

(* C1: every non-streaming operation that receives a status other than its *)
(* success code gives the body to the error mapper, returns the mapped     *)
(* domain error when the mapper matches, and a generic error carrying the  *)
(* status code only when it does not.                                      *)
C1_EveryWrapperMapsErrors ==
    (Answered /\ call.op \in BufferedOps
        /\ call.res.StatusCode # AcceptedStatus(call.op))
    => LET m == mapErrorResponse(call.res.body) IN
       IF m.ok THEN call.err = m.err
       ELSE call.err.kind = "generic" /\ call.err.status = call.res.StatusCode

(* C2: what the claim says mapErrorResponse returns, read off the body     *)
(* without the decoder: a body is an error record when it is JSON null or  *)
(* a JSON object none of whose code / message members is a number; its     *)
(* code is the last string given under a key that is "code" up to case.    *)
IsErrorRecord(body) ==
    \/ body.kind = "null"
    \/ /\ body.kind = "object"
       /\ \A i \in 1..Len(body.fields) :
            Fold(body.fields[i].key) \in {"code", "message"}
            => body.fields[i].val.t # "number"

CodeMembers(body) ==
    {i \in 1..Len(body.fields) :
        Fold(body.fields[i].key) = "code" /\ body.fields[i].val.t = "string"}

RecordCode(body) ==
    IF CodeMembers(body) = {} THEN ""
    ELSE body.fields[CHOOSE i \in CodeMembers(body) :
                        \A j \in CodeMembers(body) : j <= i].val.s

ClaimedMapping(body) ==
    LET code == IF IsErrorRecord(body) THEN RecordCode(body) ELSE "" IN
    CASE code = "InvalidCredentials" -> MapResult(ErrInvalidCredentials, TRUE)
      [] code = "NoSuchArchive" -> MapResult(ErrArchiveNotFound, TRUE)
      [] code = "NoSuchBucket" -> MapResult(ErrNoSuchBucket, TRUE)
      [] code = "BucketNotEmpty" -> MapResult(ErrBucketNotEmpty, TRUE)
      [] OTHER -> MapResult(NilErr, FALSE)

(* C2: mapErrorResponse is defined on every body and returns the domain    *)
(* error of a recognised code with matched = TRUE, and (nil, FALSE) for    *)
(* every other body.                                                       *)
C2_MapperTotalAndExact ==
    probe.done => probe.out = ClaimedMapping(probe.arg)

(* C2 witness: a two-member object whose code key is in capitals is mapped *)
(* to "no such bucket".                                                    *)
C2_Witness ==
    /\ probe.done
    /\ probe.out = MapResult(ErrNoSuchBucket, TRUE)
    /\ probe.arg.kind = "object" /\ Len(probe.arg.fields) = 2
    /\ probe.arg.fields[2].key = "CODE"

(* The success status the claim C3 gives each operation; it names none for *)
(* CreateMultipartUpload, UploadPart, CreateArchive, AddArchiveEntries and *)
(* CompleteArchive, which keep the status their code compares.             *)
DocumentedStatus(op) ==
    CASE op \in {"CreateBucket", "CreateNonce"} -> 201
      [] op \in {"CreateObject", "DeleteBucket", "DeleteObjects",
                 "AbortArchive", "AbortMultipartUpload"} -> 204
      [] op \in {"ReadObject", "ListBuckets", "ListObjects", "GetArchive",
                 "CompleteMultipartUpload"} -> 200
      [] OTHER -> AcceptedStatus(op)

(* status is the one success status of the call's operation: with it the   *)
(* call fails only on a body that does not decode, with any other it       *)
(* returns an error and no result.                                         *)
OnlySuccessStatus(status) ==
    /\ call.res.StatusCode = status => call.err.kind \in {"nil", "decode"}
    /\ call.res.StatusCode # status => call.err # NilErr /\ ~call.result.some

(* C3 as claimed: every operation accepts exactly one status, 204 for      *)
(* DeleteObjects among the deletes.                                        *)
C3_DocumentedSuccessCodes ==
    Answered => OnlySuccessStatus(DocumentedStatus(call.op))

(* C3 as amended: every operation accepts exactly one status and returns   *)
(* an error and no result for every other; 201 for CreateBucket and        *)
(* CreateNonce, 204 for CreateObject, DeleteBucket, AbortArchive and       *)
(* AbortMultipartUpload, 200 for ReadObject, ListBuckets, ListObjects,     *)
(* GetArchive, CompleteMultipartUpload and DeleteObjects.                  *)
C3_AcceptedSuccessCodes ==
    Answered =>
        OnlySuccessStatus(IF call.op = "DeleteObjects" THEN 200
                          ELSE DocumentedStatus(call.op))

(* C3 witness: DeleteObjects answered 200 returns its result and no error. *)
C3_Witness ==
    /\ Answered /\ call.op = "DeleteObjects"
    /\ call.res.StatusCode = 200
    /\ call.err = NilErr /\ call.result.some

(* The configuration of client i: host, credential, and the timeout its    *)
(* transport handle applies.                                               *)
ClientConfig(i) ==
    [host |-> clients[i].host, auth |-> clients[i].auth,
     timeout |-> httpTimeout[clients[i].httpClient]]

(* C4: once NewClient has returned a client, its configuration never       *)
(* changes, whatever is called and whatever clients are built afterwards.  *)
C4_ConfigurationImmutable ==
    [][\A i \in 1..Len(clients) : ClientConfig(i)' = ClientConfig(i)]_vars

(* C5 as claimed: Validate returns an error when Host or ApiKey is empty   *)
(* and nil when both are set, and an error once returned is returned by    *)
(* every later call on the same options.                                   *)
C5_ValidateAsClaimed ==
    [][/\ call'.op = "Validate" =>
            /\ (opt'.Host = "" \/ opt'.ApiKey = "") => call'.err # NilErr
            /\ (opt'.Host # "" /\ opt'.ApiKey # "") => call'.err = NilErr
            /\ opt.err # NilErr => call'.err = opt.err
       /\ (opt.err # NilErr /\ call'.op # "NewClientOptions") => opt'.err = opt.err
      ]_vars

(* C5 as amended: Validate returns an error when Host or ApiKey is empty;  *)
(* it returns nil when both are set and no earlier call on the same        *)
(* options has returned an error; an error once returned is returned by    *)
(* every later call on the same options, whatever the setters do between.  *)
C5_ValidateCachesFailure ==
    [][/\ call'.op = "Validate" =>
            /\ (opt'.Host = "" \/ opt'.ApiKey = "") => call'.err # NilErr
            /\ (opt'.Host # "" /\ opt'.ApiKey # "" /\ opt.err = NilErr)
               => call'.err = NilErr
            /\ opt.err # NilErr => call'.err = opt.err
       /\ (opt.err # NilErr /\ call'.op # "NewClientOptions") => opt'.err = opt.err
      ]_vars

(* C5 witness: Validate returns the stored "a host is required" although   *)
(* host and key have been set since.                                       *)
C5_Witness ==
    /\ call.op = "Validate" /\ call.err = HostRequired
    /\ opt.Host # "" /\ opt.ApiKey # ""

IsPrefix(s, t) == Len(s) <= Len(t) /\ s = SubSeq(t, 1, Len(s))

(* C6: ReadObject returns a stream exactly for status 200; the stream read *)
(* to its end gives the bytes of the response body, with the response's    *)
(* content type and length beside it; a 404 gives ErrObjectNotFound with   *)
(* no stream and no decoding of the body; any other status gives a generic *)
(* error and no stream.                                                    *)
C6_ReadObjectStream ==
    (Answered /\ call.op = "ReadObject") =>
        /\ call.result.some <=> call.res.StatusCode = 200
        /\ call.mapperCalls = 0
        /\ IF call.res.StatusCode = 200
           THEN /\ call.err = NilErr
                /\ call.result.val.ContentType = call.res.header["Content-Type"]
                /\ call.result.val.ContentLength = call.res.ContentLength
                /\ IsPrefix(call.read, Bytes(call.res.body))
                /\ call.readErr = "EOF" => call.read = Bytes(call.res.body)
           ELSE IF call.res.StatusCode = 404
           THEN call.err = ErrObjectNotFound
           ELSE call.err.kind = "generic" /\ call.err.status = call.res.StatusCode

(* C6 witness: a two-byte body has been read to the end of the stream. *)
C6_Witness ==
    /\ Answered /\ call.op = "ReadObject" /\ call.res.StatusCode = 200
    /\ call.readErr = "EOF" /\ Len(call.read) = 2
    /\ call.read = call.res.body.bytes

(* C7: every request handed to the transport carries one Authorization     *)
(* header, "Bearer " followed by the API key the client was built with.    *)
C7_BearerOnEveryRequest ==
    (call.op \in Operations /\ call.calls > 0) =>
        call.req.header["Authorization"] = <<"Bearer " \o opt.ApiKey>>

(* C7 witness: the streaming ReadObject request of a client built with the *)
(* key "s3cr3t" has left for the network.                                  *)
C7_Witness ==
    /\ call.op = "ReadObject" /\ call.calls = 1 /\ call.wire
    /\ opt.ApiKey = "s3cr3t"
    /\ HeaderGet(call.req.header, "Authorization") = "Bearer s3cr3t"

(* The URL ListObjects asks for when it sends max-keys = n. *)
ListObjectsUrl(n) ==
    clients[call.client].host \o "/" \o call.cmd.Bucket
        \o "?delimiter=" \o call.cmd.Delimiter
        \o "&max-keys=" \o Itoa(n)
        \o "&prefix=" \o call.cmd.Prefix
        \o "&start-after=" \o call.cmd.StartAfter

(* C8: the max-keys ListObjects sends is 1000 when cmd.MaxKeys < 1, is     *)
(* cmd.MaxKeys when 1 <= cmd.MaxKeys <= 1000, and never exceeds 1000.      *)
C8_MaxKeysWithinMaximum ==
    (call.op = "ListObjects" /\ call.wire) =>
        \E n \in 1..DefaultMaxKeys :
            /\ call.req.url = ListObjectsUrl(n)
            /\ call.cmd.MaxKeys < 1 => n = DefaultMaxKeys
            /\ call.cmd.MaxKeys \in 1..DefaultMaxKeys => n = call.cmd.MaxKeys

(* C9: an operation asks the transport for at most one round trip, and an  *)
(* error raised while building the request, sending it or reading the      *)
(* response body is the error the operation returns, with no result.       *)
C9_NoRetryNoSwallow ==
    call.op \in Operations =>
        /\ call.calls <= 1
        /\ call.raised # NilErr => call.err = call.raised /\ ~call.result.some

(* C9 witness: the body of a response could not be read, after one round   *)
(* trip, and the operation returned that error.                            *)
C9_Witness ==
    /\ call.op \in BufferedOps /\ call.calls = 1
    /\ call.raised = ReadFailed /\ call.err = ReadFailed

ConditionalOps == {"CreateObject", "CompleteMultipartUpload", "CompleteArchive"}

(* C10: the request of CreateObject, CompleteMultipartUpload and           *)
(* CompleteArchive carries If-None-Match: * exactly when the command's     *)
(* IfNoneMatch is true; no other operation sends an If-None-Match header.  *)
C10_IfNoneMatchHeader ==
    (call.op \in Operations /\ call.calls > 0) =>
        call.req.header["If-None-Match"] =
            IF call.op \in ConditionalOps /\ call.cmd.IfNoneMatch
            THEN <<"*">> ELSE <<>>

(* C10 witness: CompleteArchive with IfNoneMatch set has sent the header. *)
C10_Witness ==
    /\ call.op = "CompleteArchive" /\ call.cmd.IfNoneMatch /\ call.wire
    /\ HeaderGet(call.req.header, "If-None-Match") = "*"

(* The body of the response the call received is open: the operation left  *)
(* it open and the caller has not closed it through the result since.      *)
BodyOpen == call.bodyOpen /\ ~call.stream.closed

(* C11: the body of every response received is closed when the operation   *)
(* returns, but for a successful ReadObject, whose body stays open until   *)
(* the caller closes the result; no body is left open by a ReadObject that *)
(* returns an error or by a buffered doReq call.                           *)
C11_ResponseBodiesReleased ==
    (call.op \in Operations /\ call.responded) =>
        (BodyOpen <=>
            (call.op = "ReadObject" /\ call.result.some /\ ~call.stream.closed))

(* C12: the request UploadPart sends carries cmd.Data as its body, the     *)
(* upload-id and part-number query parameters, and cmd.ContentLength.      *)
C12_UploadPartSendsData ==
    (call.op = "UploadPart" /\ call.wire) =>
        /\ call.req.method = "PUT"
        /\ call.req.url =
              clients[call.client].host \o "/" \o call.cmd.Bucket \o "/" \o call.cmd.Key
                  \o "?part-number=" \o Itoa(call.cmd.PartNumber)
                  \o "&upload-id=" \o call.cmd.UploadId
        /\ call.cmd.ContentLength # 0 =>
              HeaderGet(call.req.header, "Content-Length") = Itoa(call.cmd.ContentLength)
        /\ call.req.body = Ptr(call.cmd.Data)

(* The path each operation asks for: the root for ListBuckets, the bucket  *)
(* for the bucket operations, ListObjects and DeleteObjects, and the       *)
(* object's path for the others.                                           *)
PathOf(op, cmd) ==
    CASE op = "ListBuckets" -> ""
      [] op \in {"CreateBucket", "DeleteBucket"} -> cmd.Name
      [] op \in {"ListObjects", "DeleteObjects"} -> cmd.Bucket
      [] OTHER -> cmd.Bucket \o "/" \o cmd.Key

(* The query parameters each operation builds from its command, encoded    *)
(* as url.Values.Encode writes them: sorted by key, joined by "&".         *)
QueryOf(op, cmd) ==
    CASE op = "ListBuckets" ->
            (IF cmd.MaxBuckets # 0 THEN "max-buckets=" \o Itoa(cmd.MaxBuckets) ELSE "")
            \o (IF cmd.MaxBuckets # 0 /\ cmd.StartAfter # "" THEN "&" ELSE "")
            \o (IF cmd.StartAfter # "" THEN "start-after=" \o cmd.StartAfter ELSE "")
      [] op = "CreateMultipartUpload" -> "uploads="
      [] op = "UploadPart" ->
            "part-number=" \o Itoa(cmd.PartNumber) \o "&upload-id=" \o cmd.UploadId
      [] op \in {"CompleteMultipartUpload", "AbortMultipartUpload"} ->
            "upload-id=" \o cmd.UploadId
      [] op = "ListObjects" ->
            "delimiter=" \o cmd.Delimiter
            \o "&max-keys=" \o Itoa(IF cmd.MaxKeys < 1 THEN DefaultMaxKeys ELSE cmd.MaxKeys)
            \o "&prefix=" \o cmd.Prefix
            \o "&start-after=" \o cmd.StartAfter
      [] op = "DeleteObjects" -> "delete="
      [] op = "CreateArchive" -> "archives=&type=" \o cmd.Type
      [] op \in {"AddArchiveEntries", "CompleteArchive", "AbortArchive", "GetArchive"} ->
            "archive-id=" \o cmd.ArchiveId
      [] op = "CreateNonce" -> "nonces=&ttl=" \o Itoa(cmd.TTL)
      [] OTHER -> ""

(* C13: the URL of the request an operation sends is {host}/{path}         *)
(* followed by "?" and the encoded query parameters the operation builds   *)
(* from its command, when it builds any; ListBuckets sends start-after     *)
(* when StartAfter is non-empty and max-buckets when MaxBuckets is not 0.  *)
C13_QueryReachesUrl ==
    (call.op \in Operations /\ call.wire) =>
        LET base == clients[call.client].host \o "/" \o PathOf(call.op, call.cmd)
            query == QueryOf(call.op, call.cmd)
        IN  call.req.url = IF query = "" THEN base ELSE base \o "?" \o query

(* The same for every operation but ListBuckets. *)
QueryReachesUrlElsewhere ==
    call.op = "ListBuckets" \/ C13_QueryReachesUrl

(* C14: no request reaches the transport from a client whose host or API   *)
(* key is empty: a client that sends one was built from options with both  *)
(* set, for which Validate returns nil.                                    *)
C14_NoRequestWithoutCredentials ==
    (call.op \in Operations /\ call.wire) =>
        /\ clients[call.client].host # ""
        /\ clients[call.client].auth # "Bearer "
        /\ HeaderGet(call.req.header, "Authorization") # "Bearer "

====
